---- MODULE Spec2Model ----
(***************************************************************************)
(* vibe-cli: the agent REPL (src/src/agent.ts), the tool registry          *)
(* (src/src/tools/registry.ts) and the model query gateway                 *)
(* (src/src/ai/query.ts) as one state machine.                             *)
(*                                                                         *)
(* Time is the JavaScript event loop.  A task is one chain of async calls  *)
(* (the REPL loop, or a processToolCallsInText call that the directed      *)
(* fallback's callback starts without awaiting it).  A task runs to its    *)
(* next await in one step; a task whose awaited promise has settled runs   *)
(* before any further event of the environment (microtasks before          *)
(* macrotasks).  The environment is the user, the response stream of each  *)
(* query, and the tool executors.                                          *)
(*                                                                         *)
(* A response text is the sequence of its content chunks.  A chunk is one  *)
(* region of text, named by its shape; the operators below give, per       *)
(* shape, what each regular expression and each JSON.parse of              *)
(* processToolCallsInText does on that region.                             *)
(***************************************************************************)
EXTENDS Naturals, Sequences, FiniteSets, TLC

VARIABLES
    messages,   \* AgentRepl.messages: the conversation
    tasks,      \* the async call chains; tasks[1] is the REPL loop
    queries,    \* every queryAI call made so far, with its stream and promise
    execs,      \* every ToolRegistry.execute call made so far
    tools,      \* ToolRegistry.tools: name -> registered definition (0: none)
    regs,       \* the calls of ToolRegistry.register, with their warnings
    toolLog,    \* logger.logToolExecution / logger.error records
    turn,       \* questions the user has asked so far
    escaped,    \* an exception left processInput
    unhandled,  \* a promise rejection nobody handles
    context,    \* ContextManager: isInitialized, projectInstructions
    session     \* SessionManager: sessionData, the session file, the backups

vars == <<messages, tasks, queries, execs, tools, regs, toolLog, turn,
          escaped, unhandled, context, session>>

----------------------------------------------------------------------------
(* Bounds of the model *)

\* questions the user asks in a session
MaxTurns == 2
\* regions of a response text
MaxChunks == 2
\* queries made besides the first query of each question
MaxQueries == 2
\* calls of execute made by the agent
MaxExecs == 2
\* calls of register / of execute made by a client of the registry
MaxRegs == 2
MaxCalls == 2
\* characters of a serialized tool result
MaxLen == 520

----------------------------------------------------------------------------
(* Tools and executors *)

ToolNames == {"listDir", "noSuchTool"}

\* What a tool's execute(args) can do (the Tool contract of interface.ts):
\* resolve {success: true, data}, resolve {success: false, error},
\* throw before returning a promise, or return a promise that rejects.
Behaviours == {"ok", "fail", "throw", "reject"}
\* The executors of an agent session: a rejecting promise reaches execute's
\* catch clause like a throw does, at the time a failure result would.
SessionBehaviours == {"ok", "fail", "throw"}

Main == 1

----------------------------------------------------------------------------
(* Response text: chunk shapes *)

\* "prose": free text, no fence, no "name"/"params" token.
\* "A":  ```json tool_calls: [ { "name": "listDir", "params": { "path": "." } } ] ```
\* "AN": the same, naming a tool that is not registered.
\* "J":  ```json {"tool_calls":[{"name":"listDir","params":{"path":"."}}]} ```
CallChunks == {"A", "AN", "J"}
Chunks == {"prose"} \cup CallChunks
ProseChunks == {"prose"}
\* the shapes a response of an agent session is drawn from
SessionChunks == {"prose", "A", "AN"}

\* Further shapes, for the extractor alone:
\* "A2": as "A", with "params": { "path": ".", "recursive": true }
\* "B":  ```json {"tool_calls":[{"name":"listDir","parameters":{"path":"."}}]} ```
\* "C":  no fence: "name": "listDir" ... "params": {"path": ".", "recursive": true}
\* "M":  as "A", with "params": {path: ./README.md}
SyntaxChunks == {"A2", "B", "C", "M"}
ExtractChunks == Chunks \cup SyntaxChunks
FencedChunks == CallChunks \cup {"A2", "B", "M"}

\* the "name" value the regular expressions capture in the region
ChunkTool(c) == IF c = "AN" THEN "noSuchTool" ELSE "listDir"

\* the keys of the region's params object
ChunkParams(c) ==
    IF c \in {"A2", "C"} THEN {"path", "recursive"}
    ELSE IF c \in CallChunks \cup {"B", "M"} THEN {"path"}
    ELSE {}

\* a path pattern that takes the key without its quotes too
QuotedPathLoose(c) == "path" \in ChunkParams(c)

\* the region writes its path as "path": "<value>"
QuotedPath(c) == "path" \in ChunkParams(c) /\ c # "M"

\* codeBlockRegex matches the region
HasFence(c) == c \in FencedChunks

\* toolCallsMatch, nameMatch and paramsMatch all match inside the block:
\* tool_calls must be followed by a colon, so the quoted key of "J" fails
ToolCallsMatch(c) == c \in {"A", "AN", "A2", "M"}

\* JSON.parse(paramsStr) of method 1: paramsMatch runs to the end of the
\* tool call, so paramsStr keeps the call's closing brace and never parses
M1ParamsParse(c) == FALSE

\* /"path"\s*:\s*"([^"]+)"/ on paramsStr
M1PathMatch(c) == QuotedPath(c)

\* method 2: some slice of lines starting in the region parses to an object
\* whose tool_calls array holds a call with name and params
M2Parses(c) == c = "J"

\* the region holds a "name": "<id>" token / a "params": {...} token
\* ("parameters" of "B" is no "params" token)
HasNameToken(c) == c \in CallChunks \cup SyntaxChunks
HasParamsToken(c) == c \in CallChunks \cup {"A2", "C", "M"}

\* JSON.parse(fixedParams) of method 3
M3ParamsParse(c) == c \in CallChunks \cup {"A2", "C"}

\* /"path"\s*:\s*"?([^",}]+)"?/ on paramsText
M3PathMatch(c) == QuotedPath(c)

\* text.includes('tool_calls') && (text.includes('"name"') || ...)
M2Guard(text) == \E i \in 1..Len(text) : text[i] \in FencedChunks

----------------------------------------------------------------------------
(* processToolCallsInText: the places that call processToolCall *)

NoSite == [stage |-> "none", pos |-> 0, sub |-> "a"]

\* the least element of a set of positions, or 0 when there is none
FirstIn(S) == IF S = {} THEN 0 ELSE CHOOSE i \in S : \A j \in S : i <= j

M1Calls(c) == HasFence(c) /\ ToolCallsMatch(c)
                 /\ (M1ParamsParse(c) \/ M1PathMatch(c))

\* a pattern that finds a call in any region
M3CallsAnything(c) == TRUE

\* toolCallRegex pairs a "name" token with the next "params" token; every
\* shape of Chunks holds both tokens or neither, so a pair lies within one
\* chunk ("B", which holds the first alone, stands in one-region texts only)
M3Calls(c) == HasNameToken(c) /\ HasParamsToken(c)
                 /\ (M3ParamsParse(c) \/ M3PathMatch(c))

\* the next call of processToolCall at or after position pos of a method
NextSiteRescans(text, stage, pos) ==
    LET i == FirstIn({k \in 1..Len(text) : M1Calls(text[k])})
    IN  IF i > 0 THEN [stage |-> "m1", pos |-> i, sub |-> "b"] ELSE NoSite

RECURSIVE NextSite(_, _, _)
NextSite(text, stage, pos) ==
    IF stage = "m1" THEN
        LET i == FirstIn({k \in pos..Len(text) : M1Calls(text[k])})
        IN  IF i > 0
            THEN [stage |-> "m1", pos |-> i,
                  sub |-> IF M1ParamsParse(text[i]) THEN "a" ELSE "b"]
            ELSE NextSite(text, "m2", 1)
    ELSE IF stage = "m2" THEN
        LET i == IF M2Guard(text)
                 THEN FirstIn({k \in pos..Len(text) : M2Parses(text[k])})
                 ELSE 0
        IN  IF i > 0
            THEN [stage |-> "m2", pos |-> i, sub |-> "a"]
            ELSE NextSite(text, "m3", 1)
    ELSE
        LET i == FirstIn({k \in pos..Len(text) : M3Calls(text[k])})
        IN  IF i > 0
            THEN [stage |-> "m3", pos |-> i,
                  sub |-> IF M3ParamsParse(text[i]) THEN "a" ELSE "b"]
            ELSE NoSite

\* arguments passed at a site: the parsed params, or { path } alone
SiteArgs(text, site) ==
    IF site.sub = "b" THEN {"path"} ELSE ChunkParams(text[site.pos])

----------------------------------------------------------------------------
(* Messages *)

Msg(role, tag, tool, body, n) ==
    [role |-> role, tag |-> tag, tool |-> tool, body |-> body, n |-> n]

\* buildSystemMessage()
SystemMsg == Msg("system", "system", "", <<>>, 0)
\* the user's input of prompt number n
InputMsg(n) == Msg("user", "input", "", <<>>, n)
\* an assembled response text pushed as the assistant's message
TextMsg(text) == Msg("assistant", "text", "", text, 0)
\* `I'll check that for you using the ${toolName} tool.`
AckMsg(name) == Msg("assistant", "ack", name, <<>>, 0)
\* `Tool Result (${toolName}):\n\n${resultContent}`
ResultMsg(name, content) == Msg("user", "Tool Result", name, <<content>>, 0)
\* `Tool Error:\n\n${message}`
ErrorMsg(body) == Msg("user", "Tool Error", "", body, 0)
\* 'Sorry, I encountered an error processing your request. Please try again.'
ApologyMsg == Msg("assistant", "apology", "", <<>>, 0)
\* `Use the appropriate tool to answer this question: "${last.content}"`
DirectedMsg(last) ==
    Msg("user", "directed", last.tool, <<last.role, last.tag>> \o last.body,
        last.n)

----------------------------------------------------------------------------
(* Errors *)

Err(cls, msg) == [cls |-> cls, msg |-> msg]
NoErr == Err("", <<>>)

\* error instanceof ToolError ? error.message : String(error)
ErrorTextAsString(err) == <<err.cls>> \o err.msg

ErrorText(err) ==
    IF err.cls = "ToolError" THEN err.msg ELSE <<err.cls>> \o err.msg

----------------------------------------------------------------------------
(* ToolRegistry *)

\* ToolRegistry.has
Has(name) == tools[name] # 0

\* ToolRegistry.get: the tool stored under the name (0: undefined)
Get(name) == tools[name]

\* ToolRegistry.getAll: the values of the map
GetAll == {[name |-> n, def |-> tools[n]] : n \in {k \in ToolNames : Has(k)}}

\* what `await tool.execute(args)` yields for each behaviour of the executor
ExecutorAnswer(beh) ==
    CASE beh = "ok" ->
            [thrown |-> FALSE, success |-> TRUE, err |-> NoErr]
      [] beh = "fail" ->
            [thrown |-> FALSE, success |-> FALSE, err |-> Err("", <<"boom">>)]
      [] OTHER ->
            [thrown |-> TRUE, success |-> FALSE, err |-> Err("Error", <<"boom">>)]

\* A result's data is known by the number of characters of
\* JSON.stringify(data); the data of the tools of a session is short
DataLen == 2

Returned(value) == [kind |-> "return", value |-> value, err |-> NoErr]
Thrown(err) == [kind |-> "throw", value |-> 0, err |-> err]

\* a try block that resolves to nothing when the executor succeeds
ExecuteTryDropsData(name, ans) ==
    IF ans.thrown THEN Thrown(ans.err)
    ELSE IF ~ans.success THEN Thrown(Err("ToolError", ans.err.msg))
    ELSE Returned(0)

\* the body of execute's try block after the await
ExecuteTry(name, ans) ==
    IF ans.thrown THEN Thrown(ans.err)
    ELSE IF ~ans.success THEN Thrown(Err("ToolError", ans.err.msg))
    ELSE Returned(DataLen)

\* execute's catch clause: a ToolError is thrown again as it is, any other
\* error is wrapped in a ToolError
ExecuteCatchRethrowsAll(name, error) == Thrown(error)

ExecuteCatch(name, error) ==
    IF error.cls = "ToolError" THEN Thrown(error)
    ELSE Thrown(Err("ToolError", <<"Error executing tool", name>> \o error.msg))

\* a registry that reports a missing tool with a plain Error
ExecuteMissingPlain(name) == Thrown(Err("Error", <<"Tool not found", name>>))

\* the tool is missing: throw new ToolError(`Tool "${name}" not found`)
ExecuteMissing(name) == Thrown(Err("ToolError", <<"Tool not found", name>>))

\* What execute makes of the executor's behaviour: the value it resolves
\* to, or the error it rejects with.
ExecuteOutcome(name, beh) ==
    IF beh = "missing" THEN ExecuteMissing(name)
    ELSE LET tried == ExecuteTry(name, ExecutorAnswer(beh))
         IN  IF tried.kind = "throw" THEN ExecuteCatch(name, tried.err)
             ELSE tried

NoOut == [kind |-> "none", value |-> 0, err |-> NoErr]

\* the record execute hands to the logger: logger.error for a missing tool;
\* logToolExecution with the result after the await, or with a failure in
\* the catch clause when there is no result
ExecuteLog(name, beh) ==
    [tool |-> name,
     kind |-> IF beh = "missing" THEN "error" ELSE "toolExecution",
     success |-> ~ExecutorAnswer(beh).thrown /\ ExecutorAnswer(beh).success]

\* the executor answers within the call of execute (a missing tool, a
\* synchronous throw) or later
Immediate(beh) == beh \in {"missing", "throw"}

\* One call of execute(name, args): the call as it stands when execute
\* reaches its await or has rejected.
ExecCallWithoutLookup(caller, src, site, name, args, beh0) ==
    [caller |-> caller, src |-> src, site |-> site, name |-> name,
     args |-> args, beh |-> beh0, invoked |-> TRUE,
     state |-> IF Immediate(beh0) THEN "settled" ELSE "running",
     out |-> IF Immediate(beh0) THEN ExecuteOutcome(name, beh0) ELSE NoOut]

ExecCall(caller, src, site, name, args, beh0) ==
    LET beh == IF Has(name) THEN beh0 ELSE "missing"
    IN  [caller |-> caller, src |-> src, site |-> site, name |-> name,
         args |-> args, beh |-> beh, invoked |-> Has(name),
         state |-> IF Immediate(beh) THEN "settled" ELSE "running",
         out |-> IF Immediate(beh) THEN ExecuteOutcome(name, beh)
                 ELSE NoOut]

----------------------------------------------------------------------------
(* The program state as one value, so that the steps of a handler compose *)

St == [messages |-> messages, tasks |-> tasks, queries |-> queries,
       execs |-> execs, toolLog |-> toolLog, escaped |-> escaped,
       unhandled |-> unhandled]

\* A task stands at the await of query q / of call e
AwaitsQuery(s, q) ==
    \E t \in 1..Len(s.tasks) :
        /\ s.tasks[t].wait = q
        /\ s.tasks[t].pc \in {"awaitFirst", "awaitDirected", "awaitFollowUp",
                               "awaitError"}

AwaitsExec(s, e) ==
    \E t \in 1..Len(s.tasks) :
        s.tasks[t].wait = e /\ s.tasks[t].pc = "awaitExec"

\* What nothing can read any more is dropped: the texts and the error of a
\* query whose stream is closed and whose caller has gone on, the result of
\* a call of execute whose caller has gone on.
TidyQuery(s, q) ==
    IF /\ s.queries[q].owner # 0
       /\ s.queries[q].stream = "closed"
       /\ ~AwaitsQuery(s, q)
    THEN [s.queries[q] EXCEPT !.full = <<>>, !.acc = <<>>, !.err = NoErr,
                              !.dones = 0]
    ELSE s.queries[q]

TidyExec(s, e) ==
    IF /\ s.execs[e].caller # 0
       /\ s.execs[e].state = "settled"
       /\ ~AwaitsExec(s, e)
    THEN [s.execs[e] EXCEPT !.out = NoOut, !.beh = "gone"]
    ELSE s.execs[e]

Commit(s) ==
    \E v \in {s} :
        /\ messages' = v.messages
        /\ tasks' = v.tasks
        /\ queries' = [q \in 1..Len(v.queries) |-> TidyQuery(v, q)]
        /\ execs' = [e \in 1..Len(v.execs) |-> TidyExec(v, e)]
        /\ toolLog' = v.toolLog
        /\ escaped' = v.escaped
        /\ unhandled' = v.unhandled

\* MaxQueries bounds the queries made besides the first query of each
\* question, MaxExecs the calls of execute
WithinBounds(s) ==
    /\ Len(s.queries) <= MaxQueries + turn
    /\ Len(s.execs) <= MaxExecs

\* this.messages.push(m)
Push(s, m) == [s EXCEPT !.messages = Append(@, m)]

IdleTask(ctx, pc) ==
    [ctx |-> ctx, pc |-> pc, src |-> 0, text |-> <<>>, site |-> NoSite,
     wait |-> 0]

\* the task stops at an await
Await(s, t, pc, wait) ==
    [s EXCEPT !.tasks[t].pc = pc, !.tasks[t].wait = wait]

\* queryAI(messages, onUpdate, options) up to its first await: the request
\* is built from the messages as they are at the call
\* temperatures, in tenths
FirstTemperature == 2
DirectedTemperature == 1
DefaultTemperature == 7

\* the QueryOptions each call of queryAI is given, with the gateway's
\* default temperature where the caller names none
QueryOptions(kind) ==
    CASE kind = "first" ->
            [format |-> "", toolChoice |-> "",
             temperature |-> FirstTemperature]
      [] kind = "directed" ->
            [format |-> "json", toolChoice |-> "auto",
             temperature |-> DirectedTemperature]
      [] OTHER ->
            [format |-> "", toolChoice |-> "",
             temperature |-> DefaultTemperature]

IssueQuery(s, t, kind, input, pc) ==
    LET q == [kind |-> kind, owner |-> t, input |-> input, full |-> <<>>,
              acc |-> <<>>, promise |-> "pending", err |-> NoErr,
              stream |-> "open", dones |-> 0,
              options |-> QueryOptions(kind)]
        s1 == [s EXCEPT !.queries = Append(@, q)]
    IN  Await(s1, t, pc, Len(s1.queries))

\* processToolCallsInText returns: to getAIResponse, which pushes the text
\* when no call was detected and ends the turn, or to the promise that the
\* directed fallback's callback dropped
Finish(s, t, detected) ==
    LET task == s.tasks[t]
        s1 == IF task.ctx = "main" /\ ~detected
              THEN Push(s, TextMsg(task.text)) ELSE s
    IN  [s1 EXCEPT !.tasks[t] =
            IdleTask(task.ctx, IF task.ctx = "main" THEN "prompt" ELSE "done")]

\* processToolCall(name, params) up to its first await
ProcessToolCall(s, t, site, beh) ==
    LET task == s.tasks[t]
        name == ChunkTool(task.text[site.pos])
        s0 == [s EXCEPT !.tasks[t].site = site]
    IN  IF ~Has(name)
        THEN Finish(s0, t, TRUE)
        ELSE LET e == ExecCall(t, task.src, site, name,
                               SiteArgs(task.text, site), beh)
                 s1 == [s0 EXCEPT !.execs = Append(@, e),
                                  !.toolLog = IF e.state = "settled"
                                              THEN Append(@, ExecuteLog(name, e.beh))
                                              ELSE @]
             IN  Await(s1, t, "awaitExec", Len(s1.execs))

\* processToolCallsInText goes on from a site, or returns false
RunSite(s, t, site, beh) ==
    IF site = NoSite THEN Finish(s, t, FALSE)
    ELSE ProcessToolCall(s, t, site, beh)

\* processToolCallsInText(text) up to its first await
ProcessToolCallsInText(s, t, src, text, beh) ==
    LET s1 == [s EXCEPT !.tasks[t].src = src, !.tasks[t].text = text]
    IN  RunSite(s1, t, NextSite(text, "m1", 1), beh)

----------------------------------------------------------------------------
(* try/catch: where a thrown error resumes *)

\* the catch clauses around a call of processToolCall, innermost first
SiteChain(site) ==
    CASE site.stage = "m1" /\ site.sub = "a" -> <<"m1inner", "m1outer">>
      [] site.stage = "m1" /\ site.sub = "b" -> <<"m1outer">>
      [] site.stage = "m2" -> <<"m2inner", "m2outer">>
      [] site.stage = "m3" /\ site.sub = "a" -> <<"m3inner", "m3outer">>
      [] OTHER -> <<"m3outer">>

\* the catch clauses around a call of processToolCallsInText
CtxChain(ctx) ==
    IF ctx = "main" THEN <<"getAIResponse", "processInput">>
    ELSE <<"dotCatch">>

\* the catch clauses around each await, innermost first
ChainRetriesFallback(task) ==
    CASE task.pc \in {"awaitFirst", "awaitDirected"} -> CtxChain("main")
      [] task.pc \in {"awaitExec", "awaitFollowUp"} ->
            <<"toolCatch">> \o SiteChain(task.site) \o CtxChain(task.ctx)
      [] OTHER -> SiteChain(task.site) \o CtxChain(task.ctx)

Chain(task) ==
    CASE task.pc = "awaitFirst" -> CtxChain("main")
      [] task.pc = "awaitDirected" ->
            <<"directly", "fallbackInner", "processInput">>
      [] task.pc \in {"awaitExec", "awaitFollowUp"} ->
            <<"toolCatch">> \o SiteChain(task.site) \o CtxChain(task.ctx)
      [] OTHER -> SiteChain(task.site) \o CtxChain(task.ctx)

\* every catch clause of agent.ts is a bare catch: it takes any error
CatchesToolErrorOnly(frame, err) == err.cls = "ToolError"

Catches(frame, err) == TRUE

\* the catch clause that takes an error thrown under the chain, or "none"
Catcher(chain, err) ==
    LET ks == {k \in 1..Len(chain) : Catches(chain[k], err)}
    IN  IF ks = {} THEN "none" ELSE chain[FirstIn(ks)]

\* getAIResponseWithToolCallsDirectly up to its await
DirectedFallback(s, t) ==
    LET last == s.messages[Len(s.messages)]
        toolMessages == <<s.messages[1], DirectedMsg(last)>>
    IN  IssueQuery(s, t, "directed", toolMessages, "awaitDirected")

\* the body of each catch clause, up to the next await
Handle(s, t, frame, err, beh) ==
    LET task == s.tasks[t]
        site == task.site
        c == task.text[site.pos]
        again == [site EXCEPT !.sub = "b"]
        idle == [s EXCEPT !.tasks[t] = IdleTask(task.ctx, "prompt")]
    IN  CASE frame = "toolCatch" ->
                LET s1 == Push(s, ErrorMsg(ErrorText(err)))
                IN  IssueQuery(s1, t, "error", s1.messages, "awaitError")
          [] frame = "m1inner" ->
                IF M1PathMatch(c) THEN ProcessToolCall(s, t, again, beh)
                ELSE RunSite(s, t, NextSite(task.text, "m1", site.pos + 1), beh)
          [] frame = "m1outer" ->
                RunSite(s, t, NextSite(task.text, "m1", site.pos + 1), beh)
          [] frame = "m2inner" ->
                RunSite(s, t, NextSite(task.text, "m2", site.pos + 1), beh)
          [] frame = "m2outer" ->
                RunSite(s, t, NextSite(task.text, "m3", 1), beh)
          [] frame = "m3inner" ->
                IF M3PathMatch(c) THEN ProcessToolCall(s, t, again, beh)
                ELSE RunSite(s, t, NextSite(task.text, "m3", site.pos + 1), beh)
          [] frame = "m3outer" ->
                RunSite(s, t, NextSite(task.text, "m3", site.pos + 1), beh)
          [] frame = "getAIResponse" -> DirectedFallback(idle, t)
          [] frame = "fallbackInner" -> Push(idle, ApologyMsg)
          [] frame \in {"directly", "processInput"} -> idle
          [] frame = "dotCatch" ->
                [s EXCEPT !.tasks[t] = IdleTask(task.ctx, "done")]
          [] OTHER ->
                IF task.ctx = "main"
                THEN [s EXCEPT !.tasks[t] = IdleTask("main", "exited"),
                               !.escaped = TRUE]
                ELSE [s EXCEPT !.tasks[t] = IdleTask(task.ctx, "done"),
                               !.unhandled = TRUE]

\* an error is thrown at the await the task stands at
Raise(s, t, err, beh) ==
    Handle(s, t, Catcher(Chain(s.tasks[t]), err), err, beh)

----------------------------------------------------------------------------
(* queryAI: the response stream and the promise *)

\* resolve(fullResponse) / reject(error): a settled promise stays as it is
Resolve(s, q) ==
    IF s.queries[q].promise = "pending"
    THEN [s EXCEPT !.queries[q].promise = "resolved"] ELSE s

Reject(s, q, err) ==
    IF s.queries[q].promise = "pending"
    THEN [s EXCEPT !.queries[q].promise = "rejected", !.queries[q].err = err]
    ELSE s

AIQueryError(msg) == Err("AIQueryError", <<msg>>)

\* the directed fallback's callback starts processToolCallsInText and does
\* not await it
Spawn(s, q, beh) ==
    LET s1 == [s EXCEPT !.tasks = Append(@, IdleTask("detached", "done"))]
    IN  ProcessToolCallsInText(s1, Len(s1.tasks), q, s1.queries[q].acc, beh)

\* text += content: prose after prose is one region of prose
Concat(text, c) ==
    IF text # <<>> /\ text[Len(text)] = "prose" /\ c = "prose" THEN text
    ELSE Append(text, c)

\* a callback that puts the newest content first
OnContentNewestFirst(s, q, c) == [s EXCEPT !.queries[q].acc = <<c>> \o @]

\* onUpdate(content, false) of each caller: the text is accumulated
OnContentActsOnPartial(s, q, c) ==
    LET s1 == [s EXCEPT !.queries[q].acc = Concat(@, c)]
    IN  IF s.queries[q].kind = "directed" THEN Spawn(s1, q, "ok") ELSE s1

OnContent(s, q, c) == [s EXCEPT !.queries[q].acc = Concat(@, c)]

\* onUpdate('', true) of each caller
OnDone(s, q, beh) ==
    LET s1 == [s EXCEPT !.queries[q].dones = @ + 1]
    IN  IF s.queries[q].kind = "directed" /\ s.queries[q].acc # <<>>
        THEN Spawn(s1, q, beh)
        ELSE s1

----------------------------------------------------------------------------
(* Scheduling *)

Settled(task) ==
    CASE task.pc = "awaitExec" -> execs[task.wait].state = "settled"
      [] task.pc \in {"awaitFirst", "awaitDirected", "awaitFollowUp",
                      "awaitError"} -> queries[task.wait].promise # "pending"
      [] OTHER -> FALSE

Ready(t) == Settled(tasks[t])

\* events of the environment wait until every runnable task has run
NoReady == \A t \in 1..Len(tasks) : ~Ready(t)

\* A stream that has delivered done: true is about to end.  Outside the
\* directed fallback its 'end' or 'error' changes nothing but the stream
\* itself (the callbacks only append '' to a text, the promise is settled),
\* so it commutes with every other event and is taken first.
Ending(q) == queries[q].stream = "done" /\ queries[q].kind # "directed"
NoEnding == \A q \in 1..Len(queries) : ~Ending(q)

\* agent.ts has no context manager: nothing is initialized
NoContext == [initialized |-> FALSE, instructions |-> FALSE]

\* sessionData as the constructor leaves it: no command, no conversation
\* entry, no sessionState
NoData == [history |-> <<>>, conv |-> 0, state |-> 0]

\* the session manager after its constructor: nothing loaded, no timer, no
\* call in flight; file is session.json (<<>>: absent), dir the timestamps of
\* the files of the backups directory
NoSession ==
    [phase |-> "new", enableBackups |-> FALSE, data |-> NoData,
     file |-> <<>>, saves |-> <<>>, dir |-> {}, backups |-> <<>>,
     clock |-> 0, timer |-> FALSE, restoring |-> <<>>]

----------------------------------------------------------------------------
(* Initial state: the registry after initializeTools, the REPL at its prompt *)

Init ==
    /\ messages = <<SystemMsg>>
    /\ tasks = <<IdleTask("main", "prompt")>>
    /\ queries = <<>>
    /\ execs = <<>>
    /\ tools = [n \in ToolNames |-> IF n = "listDir" THEN 1 ELSE 0]
    /\ regs = <<[name |-> "listDir", def |-> 1, warned |-> FALSE]>>
    /\ toolLog = <<>>
    /\ turn = 0
    /\ escaped = FALSE
    /\ unhandled = FALSE
    /\ context = NoContext
    /\ session = NoSession

\* the REPL awaits the user's input; the user answers once the response
\* streams that have delivered their last event have ended
AtPrompt ==
    /\ tasks[Main].pc = "prompt"
    /\ NoReady
    /\ NoEnding

----------------------------------------------------------------------------
(* The user *)

\* loop -> processInput(input): a question
Ask(max) ==
    /\ AtPrompt
    /\ turn < max
    /\ LET s1 == Push(St, InputMsg(turn + 1))
       IN  Commit(IssueQuery(s1, Main, "first", s1.messages, "awaitFirst"))
    /\ turn' = turn + 1
    /\ UNCHANGED <<tools, regs, context, session>>

\* the block enhanceMessages adds to the system message
ProjectContext == "PROJECT INSTRUCTIONS"

\* contextManager.enhanceMessages(messages): the list is copied, the
\* messages in it are not, so the block is added to the system message of
\* the conversation itself
EnhanceMessages(msgs) ==
    LET i == FirstIn({k \in 1..Len(msgs) : msgs[k].role = "system"})
    IN  IF ~context.initialized \/ ~context.instructions THEN msgs
        ELSE IF i > 0
        THEN [msgs EXCEPT ![i].body = Append(@, ProjectContext)]
        ELSE <<Msg("system", "system", "", <<ProjectContext>>, 0)>> \o msgs

\* loop -> processInput(input) of the agent with a context manager: the
\* input is pushed, the messages are enhanced, processAgentMessage calls
\* getAIResponseWithToolCallsDirectly
AskEnhanced(max) ==
    /\ AtPrompt
    /\ turn < max
    /\ LET s1 == Push(St, InputMsg(turn + 1))
           s2 == [s1 EXCEPT !.messages = EnhanceMessages(@)]
       IN  Commit(DirectedFallback(s2, Main))
    /\ turn' = turn + 1
    /\ UNCHANGED <<tools, regs, context, session>>

\* loop -> processCommand('/clear')
Clear ==
    /\ AtPrompt
    /\ messages' = <<messages[1]>>
    /\ UNCHANGED <<tasks, queries, execs, tools, regs, toolLog, turn,
                   escaped, unhandled, context, session>>

\* 'exit', '/exit' or Ctrl+C: the loop ends
Exit ==
    /\ AtPrompt
    /\ Commit([St EXCEPT !.tasks[Main].pc = "exited"])
    /\ UNCHANGED <<tools, regs, turn, context, session>>

\* blank input, '/debug', an unknown command: the loop prompts again
OtherInput ==
    /\ AtPrompt
    /\ UNCHANGED vars

----------------------------------------------------------------------------
(* The response stream of query q *)

\* the response to query q is scanned for tool calls; the text of a
\* follow-up or error response is pushed as it is and never scanned
Scanned(q) == queries[q].kind \in {"first", "directed"}

\* axios.post rejects: the request never produced a stream
PostFail(q) ==
    /\ NoReady /\ NoEnding
    /\ queries[q].stream = "open"
    /\ queries[q].full = <<>> /\ queries[q].dones = 0
    /\ Commit([Reject(St, q, AIQueryError("API request failed"))
                 EXCEPT !.queries[q].stream = "closed"])
    /\ UNCHANGED <<tools, regs, turn, context, session>>

\* a data event whose message has content
StreamData(q, c) ==
    /\ NoReady /\ NoEnding
    /\ queries[q].stream = "open"
    /\ Len(queries[q].full) < MaxChunks
    /\ Commit(OnContent([St EXCEPT !.queries[q].full = Concat(@, c)], q, c))
    /\ UNCHANGED <<tools, regs, turn, context, session>>

\* a data event with done: true
StreamDone(q, beh) ==
    /\ NoReady /\ NoEnding
    /\ queries[q].stream = "open"
    /\ LET s1 == OnDone([St EXCEPT !.queries[q].stream = "done"], q, beh)
           s2 == Resolve(s1, q)
       IN  \E s3 \in {s2} : WithinBounds(s3) /\ Commit(s3)
    /\ UNCHANGED <<tools, regs, turn, context, session>>

\* a data event whose JSON carries an error field: throw new Error(data.error)
\* is caught by the catch clause around the event, which prints and goes on
\* to the next event; the server sends nothing more but the stream's end
StreamReportsError(q) ==
    /\ NoReady /\ NoEnding
    /\ queries[q].stream = "open"
    /\ Commit([St EXCEPT !.queries[q].stream = "failed"])
    /\ UNCHANGED <<tools, regs, turn, context, session>>

\* the 'end' event
StreamEnd(q, beh) ==
    /\ NoReady
    /\ queries[q].stream \in {"open", "done", "failed"}
    /\ NoEnding \/ Ending(q)
    /\ LET s0 == [St EXCEPT !.queries[q].stream = "closed"]
           s2 == IF queries[q].full # <<>>
                 THEN Resolve(OnDone(s0, q, beh), q)
                 ELSE Reject(s0, q, AIQueryError("Stream ended without response"))
       IN  \E s3 \in {s2} : WithinBounds(s3) /\ Commit(s3)
    /\ UNCHANGED <<tools, regs, turn, context, session>>

\* the 'error' event
StreamError(q) ==
    /\ NoReady
    /\ queries[q].stream \in {"open", "done", "failed"}
    /\ NoEnding \/ Ending(q)
    /\ Commit([Reject(St, q, AIQueryError("Stream error"))
                 EXCEPT !.queries[q].stream = "closed"])
    /\ UNCHANGED <<tools, regs, turn, context, session>>

----------------------------------------------------------------------------
(* The executor of call e answers *)

ToolSettles(e) ==
    /\ NoReady /\ NoEnding
    /\ execs[e].state = "running"
    /\ execs' = [execs EXCEPT
                    ![e].state = "settled",
                    ![e].out = ExecuteOutcome(execs[e].name, execs[e].beh)]
    /\ toolLog' = Append(toolLog, ExecuteLog(execs[e].name, execs[e].beh))
    /\ UNCHANGED <<messages, tasks, queries, tools, regs, turn, escaped,
                   unhandled, context, session>>

----------------------------------------------------------------------------
(* A task goes on after its await *)

\* the limits of the condensed view of a result
ResultLimit == 500
ResultKept == 490
TruncatedSuffix == "... (truncated)"

\* resultContent: the leading characters of JSON.stringify(result) that are
\* kept and the suffix put after them ("" when the text is kept whole)
Condense(len) ==
    IF len > ResultLimit
    THEN [kept |-> ResultKept, suffix |-> TruncatedSuffix]
    ELSE [kept |-> len, suffix |-> ""]

\* resultContent.length
ContentLength(content) == content.kept + Len(content.suffix)

\* getAIResponse after await queryAI(this.messages, onUpdate, queryOptions)
AfterFirstQuery(beh) ==
    /\ tasks[Main].pc = "awaitFirst" /\ Ready(Main)
    /\ LET q == tasks[Main].wait
           s2 == IF queries[q].promise = "resolved"
                 THEN ProcessToolCallsInText(St, Main, q, queries[q].acc, beh)
                 ELSE Raise(St, Main, queries[q].err, beh)
       IN  \E s3 \in {s2} : WithinBounds(s3) /\ Commit(s3)
    /\ UNCHANGED <<tools, regs, turn, context, session>>

\* getAIResponseWithToolCallsDirectly after await queryAI(toolMessages, ...)
AfterDirectedQuery(beh) ==
    /\ tasks[Main].pc = "awaitDirected" /\ Ready(Main)
    /\ LET q == tasks[Main].wait
           s2 == IF queries[q].promise = "resolved"
                 THEN [St EXCEPT !.tasks[Main] = IdleTask("main", "prompt")]
                 ELSE Raise(St, Main, queries[q].err, beh)
       IN  \E s3 \in {s2} : WithinBounds(s3) /\ Commit(s3)
    /\ UNCHANGED <<tools, regs, turn, context, session>>

\* processToolCall after await toolRegistry.execute(toolName, parameters)
AfterExecute(t, beh) ==
    /\ tasks[t].pc = "awaitExec" /\ Ready(t)
    /\ LET e == execs[tasks[t].wait]
           s1 == Push(Push(St, AckMsg(e.name)),
                      ResultMsg(e.name, Condense(e.out.value)))
           s2 == IF e.out.kind = "return"
                 THEN IssueQuery(s1, t, "followup", s1.messages, "awaitFollowUp")
                 ELSE Raise(St, t, e.out.err, beh)
       IN  \E s3 \in {s2} : WithinBounds(s3) /\ Commit(s3)
    /\ UNCHANGED <<tools, regs, turn, context, session>>

\* processToolCall after the follow-up query
AfterFollowUp(t, beh) ==
    /\ tasks[t].pc = "awaitFollowUp" /\ Ready(t)
    /\ LET q == tasks[t].wait
           s2 == IF queries[q].promise = "resolved"
                 THEN Finish(Push(St, TextMsg(queries[q].acc)), t, TRUE)
                 ELSE Raise(St, t, queries[q].err, beh)
       IN  \E s3 \in {s2} : WithinBounds(s3) /\ Commit(s3)
    /\ UNCHANGED <<tools, regs, turn, context, session>>

\* processToolCall's catch clause after the error-response query
AfterErrorQuery(t, beh) ==
    /\ tasks[t].pc = "awaitError" /\ Ready(t)
    /\ LET q == tasks[t].wait
           s2 == IF queries[q].promise = "resolved"
                 THEN Finish(Push(St, TextMsg(queries[q].acc)), t, TRUE)
                 ELSE Raise(St, t, queries[q].err, beh)
       IN  \E s3 \in {s2} : WithinBounds(s3) /\ Commit(s3)
    /\ UNCHANGED <<tools, regs, turn, context, session>>

----------------------------------------------------------------------------
(* The registry used on its own *)

Defs == 1..2

\* ToolRegistry.register(tool)
\* a registry that keeps the tool it has and does not warn
RegisterKeepsFirst(name, def) ==
    /\ Len(regs) < MaxRegs
    /\ regs' = Append(regs, [name |-> name, def |-> def, warned |-> FALSE])
    /\ tools' = IF Has(name) THEN tools ELSE [tools EXCEPT ![name] = def]
    /\ UNCHANGED <<messages, tasks, queries, execs, toolLog, turn, escaped,
                   unhandled, context, session>>

Register(name, def) ==
    /\ Len(regs) < MaxRegs
    /\ regs' = Append(regs, [name |-> name, def |-> def, warned |-> Has(name)])
    /\ tools' = [tools EXCEPT ![name] = def]
    /\ UNCHANGED <<messages, tasks, queries, execs, toolLog, turn, escaped,
                   unhandled, context, session>>

\* ToolRegistry.execute(name, args) called by a client of the registry
Execute(name, args, beh) ==
    /\ Len(execs) < MaxCalls
    /\ LET e == ExecCall(0, 0, NoSite, name, args, beh)
       IN  /\ execs' = Append(execs, e)
           /\ toolLog' = IF e.state = "settled"
                         THEN Append(toolLog, ExecuteLog(name, e.beh))
                         ELSE toolLog
    /\ UNCHANGED <<messages, tasks, queries, tools, regs, turn, escaped,
                   unhandled, context, session>>

InitRegistry ==
    /\ messages = <<SystemMsg>>
    /\ tasks = <<IdleTask("main", "exited")>>
    /\ queries = <<>>
    /\ execs = <<>>
    /\ tools = [n \in ToolNames |-> 0]
    /\ regs = <<>>
    /\ toolLog = <<>>
    /\ turn = 0
    /\ escaped = FALSE
    /\ unhandled = FALSE
    /\ context = NoContext
    /\ session = NoSession

ArgSets == {{"path"}}

NextRegistry ==
    \/ \E n \in ToolNames, d \in Defs : Register(n, d)
    \/ \E n \in ToolNames, a \in ArgSets, b \in Behaviours : Execute(n, a, b)
    \/ \E e \in 1..Len(execs) : ToolSettles(e)

SpecRegistry == InitRegistry /\ [][NextRegistry]_vars

----------------------------------------------------------------------------
(* The gateway used on its own *)

\* queryAI(messages, onUpdate) called once by a client whose callback
\* appends each content to a text, as the callbacks of the agent do
Query ==
    /\ queries = <<>>
    /\ queries' = Append(queries,
                     [kind |-> "first", owner |-> 0, input |-> messages,
                      full |-> <<>>, acc |-> <<>>, promise |-> "pending",
                      err |-> NoErr, stream |-> "open", dones |-> 0,
                      options |-> QueryOptions("first")])
    /\ UNCHANGED <<messages, tasks, execs, tools, regs, toolLog, turn,
                   escaped, unhandled, context, session>>

NextStream ==
    \/ Query
    \/ \E q \in 1..Len(queries) : PostFail(q)
    \/ \E q \in 1..Len(queries), c \in Chunks : StreamData(q, c)
    \/ \E q \in 1..Len(queries) : StreamReportsError(q)
    \/ \E q \in 1..Len(queries) : StreamDone(q, "ok")
    \/ \E q \in 1..Len(queries) : StreamEnd(q, "ok")
    \/ \E q \in 1..Len(queries) : StreamError(q)

SpecStream == InitRegistry /\ [][NextStream]_vars

----------------------------------------------------------------------------
(* One agent session *)

\* what the streams, the executors and the tasks do, the executors behaving
\* as B allows
RunDirected(B) ==
    \/ \E q \in 1..Len(queries) : PostFail(q)
    \/ \E q \in 1..Len(queries), b \in B : StreamDone(q, b)
    \/ \E q \in 1..Len(queries), b \in B : StreamEnd(q, b)
    \/ \E q \in 1..Len(queries) : StreamError(q)
    \/ \E e \in 1..Len(execs) : ToolSettles(e)
    \/ \E b \in B : AfterDirectedQuery(b)
    \/ \E t \in 1..Len(tasks), b \in B : AfterExecute(t, b)
    \/ \E t \in 1..Len(tasks), b \in B : AfterFollowUp(t, b)
    \/ \E t \in 1..Len(tasks), b \in B : AfterErrorQuery(t, b)

Run(B) ==
    \/ \E b \in B : AfterFirstQuery(b)
    \/ RunDirected(B)

\* A session of several questions, each response one region at most
Next ==
    \/ Ask(MaxTurns)
    \/ \E q \in 1..Len(queries) :
          \E c \in IF Scanned(q) THEN SessionChunks ELSE ProseChunks :
             queries[q].full = <<>> /\ StreamData(q, c)
    \/ Clear
    \/ Exit
    \/ OtherInput
    \/ Run(SessionBehaviours)

Spec == Init /\ [][Next]_vars

\* One question, the scanned responses of several chunks of every shape
NextTurn ==
    \/ Ask(1)
    \/ \E q \in 1..Len(queries) :
          \E c \in IF Scanned(q) THEN Chunks ELSE ProseChunks :
             StreamData(q, c)
    \/ Run(Behaviours)

SpecTurn == Init /\ [][NextTurn]_vars

\* One question, each scanned response one region at most of any syntax
NextExtract ==
    \/ Ask(1)
    \/ \E q \in 1..Len(queries) :
          \E c \in IF Scanned(q) THEN ExtractChunks ELSE ProseChunks :
             queries[q].full = <<>> /\ StreamData(q, c)
    \/ Run(SessionBehaviours)

SpecExtract == Init /\ [][NextExtract]_vars

\* The agent with a context manager: the state when its loop starts
Contexts ==
    {[initialized |-> FALSE, instructions |-> FALSE],
     [initialized |-> TRUE, instructions |-> FALSE],
     [initialized |-> TRUE, instructions |-> TRUE]}

InitContext ==
    /\ messages = <<SystemMsg>>
    /\ tasks = <<IdleTask("main", "prompt")>>
    /\ queries = <<>>
    /\ execs = <<>>
    /\ tools = [n \in ToolNames |-> IF n = "listDir" THEN 1 ELSE 0]
    /\ regs = <<[name |-> "listDir", def |-> 1, warned |-> FALSE]>>
    /\ toolLog = <<>>
    /\ turn = 0
    /\ escaped = FALSE
    /\ unhandled = FALSE
    /\ context \in Contexts
    /\ session = NoSession

\* One question to that agent, each response one region at most
NextContext ==
    \/ AskEnhanced(1)
    \/ \E q \in 1..Len(queries) :
          \E c \in IF Scanned(q) THEN SessionChunks ELSE ProseChunks :
             queries[q].full = <<>> /\ StreamData(q, c)
    \/ Clear
    \/ RunDirected(SessionBehaviours)

SpecContext == InitContext /\ [][NextContext]_vars

\* Several questions to that agent, answered in prose
NextEnhance ==
    \/ AskEnhanced(MaxTurns)
    \/ \E q \in 1..Len(queries) :
          queries[q].full = <<>> /\ StreamData(q, "prose")
    \/ Clear
    \/ \E q \in 1..Len(queries) : PostFail(q)
    \/ \E q \in 1..Len(queries) : StreamDone(q, "ok")
    \/ \E q \in 1..Len(queries) : StreamEnd(q, "ok")
    \/ \E q \in 1..Len(queries) : StreamError(q)
    \/ AfterDirectedQuery("ok")

SpecEnhance == InitContext /\ [][NextEnhance]_vars

\* The first turn after its free-text query has failed: getAIResponse's
\* catch clause has called getAIResponseWithToolCallsDirectly, which awaits
\* the directed query. The failed query, which nothing awaits any more, is
\* not kept.
FailedFirst ==
    DirectedFallback([messages |-> <<SystemMsg, InputMsg(1)>>,
                      tasks |-> <<IdleTask("main", "prompt")>>,
                      queries |-> <<>>, execs |-> <<>>, toolLog |-> <<>>,
                      escaped |-> FALSE, unhandled |-> FALSE], Main)

InitFallback ==
    /\ messages = FailedFirst.messages
    /\ tasks = FailedFirst.tasks
    /\ queries = FailedFirst.queries
    /\ execs = <<>>
    /\ tools = [n \in ToolNames |-> IF n = "listDir" THEN 1 ELSE 0]
    /\ regs = <<[name |-> "listDir", def |-> 1, warned |-> FALSE]>>
    /\ toolLog = <<>>
    /\ turn = 1
    /\ escaped = FALSE
    /\ unhandled = FALSE
    /\ context = NoContext
    /\ session = NoSession

\* A session from the directed fallback of its first question on, each
\* response one region at most, the executors succeeding
NextFallback ==
    \/ Ask(MaxTurns)
    \/ \E q \in 1..Len(queries) :
          \E c \in IF Scanned(q) THEN SessionChunks ELSE ProseChunks :
             queries[q].full = <<>> /\ StreamData(q, c)
    \/ Run({"ok"})

SpecFallback == InitFallback /\ [][NextFallback]_vars

----------------------------------------------------------------------------
(* The session manager *)

\* options.maxHistorySize and options.maxBackups of the model
MaxHistory == 2
MaxBackups == 1
\* calls of saveSession, and of backupSession, in flight at once
MaxPending == 2
\* distinct timestamps of the backups of a session
MaxStamps == 3
\* entries of the conversation history
MaxConv == 1

Commands == {"a", "b"}

\* a command history of n entries as an earlier session left it on disk
RECURSIVE Persisted(_)
Persisted(n) ==
    IF n = 0 THEN <<>>
    ELSE Append(Persisted(n - 1), IF n % 2 = 1 THEN "a" ELSE "b")

\* session.json, or a backup, as found on disk, by the size of its history
PersistedData(sizes) ==
    {[NoData EXCEPT !.history = Persisted(n)] : n \in sizes}

Without(seq, i) == SubSeq(seq, 1, i - 1) \o SubSeq(seq, i + 1, Len(seq))

\* saveSession up to its first await (mkdir)
SaveStart(ss, owner) ==
    [ss EXCEPT !.saves = Append(@, [pc |-> "mkdir", snap |-> <<>>,
                                     owner |-> owner])]

\* loadSession: the command history and the conversation history of the
\* file, whatever their size
LoadSession(ss) ==
    IF ss.file = <<>> THEN ss.data
    ELSE [ss.data EXCEPT !.history = ss.file[1].history,
                         !.conv = ss.file[1].conv]

\* restoreFromBackup after its backup: the parsed data replaces sessionData,
\* then saveSession
RestoreData(ss) ==
    SaveStart([ss EXCEPT !.data = ss.restoring[1], !.restoring = <<>>],
              "call")

\* backupSession up to its first await: nothing to do without activity
BackupStart(ss, owner) ==
    IF ss.data.history = <<>> /\ ss.data.conv = 0
    THEN IF owner = "restore" THEN RestoreData(ss) ELSE ss
    ELSE [ss EXCEPT !.backups = Append(@, [pc |-> "mkdir", ts |-> 0,
                                           todo |-> <<>>, owner |-> owner])]

\* backupSession returns
BackupDone(ss, i) ==
    LET owner == ss.backups[i].owner
        left == [ss EXCEPT !.backups = Without(@, i)]
    IN  IF owner = "restore" THEN RestoreData(left) ELSE left

RECURSIVE NewestFirst(_)
NewestFirst(stamps) ==
    IF stamps = {} THEN <<>>
    ELSE LET newest == CHOOSE t \in stamps : \A u \in stamps : u <= t
         IN  <<newest>> \o NewestFirst(stamps \ {newest})

\* cleanupBackups: backups.slice(maxBackups) of the files sorted newest first
Excess(stamps) ==
    LET backups == NewestFirst(stamps)
    IN  IF Len(backups) > MaxBackups
        THEN SubSeq(backups, MaxBackups + 1, Len(backups))
        ELSE <<>>

\* addToHistory's trim: one shift()
Trimmed(h) == IF Len(h) > MaxHistory THEN Tail(h) ELSE h

OnlySession ==
    UNCHANGED <<messages, tasks, queries, execs, tools, regs, toolLog, turn,
                escaped, unhandled, context>>

\* initialize, up to the await of its saveSession
Initialize ==
    /\ session.phase = "new"
    /\ session' = SaveStart([session EXCEPT
                               !.data = LoadSession(session),
                               !.timer = session.enableBackups,
                               !.phase = "init"], "initialize")
    /\ OnlySession

\* addToHistory(command), command not the last one of the history
AddToHistory(command) ==
    /\ session.phase = "open"
    /\ Len(session.saves) < MaxPending
    /\ LET h == session.data.history
       IN  /\ IF Len(h) = 0 THEN TRUE ELSE h[Len(h)] # command
           /\ session' = SaveStart([session EXCEPT !.data.history =
                                      Trimmed(Append(h, command))], "call")
    /\ OnlySession

\* addToConversationHistory(messages), messages not empty
AddToConversationHistory ==
    /\ session.phase = "open"
    /\ Len(session.saves) < MaxPending
    /\ session.data.conv < MaxConv
    /\ session' = SaveStart([session EXCEPT !.data.conv = @ + 1], "call")
    /\ OnlySession

ClearConversationHistory ==
    /\ session.phase = "open"
    /\ Len(session.saves) < MaxPending
    /\ session' = SaveStart([session EXCEPT !.data.conv = 0], "call")
    /\ OnlySession

SetSessionState ==
    /\ session.phase = "open"
    /\ Len(session.saves) < MaxPending
    /\ session' = SaveStart([session EXCEPT !.data.state = 1], "call")
    /\ OnlySession

\* the interval timer fires
TimerBackup ==
    /\ session.timer
    /\ Len(session.backups) < MaxPending
    /\ session' = BackupStart(session, "call")
    /\ OnlySession

\* restoreFromBackup(backupPath), up to the await of its backupSession; the
\* file at backupPath is any valid session
RestoreFromBackup(parsed) ==
    /\ session.phase = "open"
    /\ session.restoring = <<>>
    /\ Len(session.backups) < MaxPending
    /\ Len(session.saves) < MaxPending
    /\ session' = BackupStart([session EXCEPT !.restoring = <<parsed>>],
                              "restore")
    /\ OnlySession

Close ==
    /\ session.phase = "open"
    /\ Len(session.saves) < MaxPending
    /\ LET stopped == SaveStart([session EXCEPT !.timer = FALSE,
                                                !.phase = "closed"], "call")
       IN  session' = IF session.enableBackups
                      THEN BackupStart(stopped, "call") ELSE stopped
    /\ OnlySession

\* saveSession after mkdir: JSON.stringify(this.sessionData) goes to writeFile
SaveMkdirDone(i) ==
    /\ session.saves[i].pc = "mkdir"
    /\ session' = [session EXCEPT !.saves[i].pc = "write",
                                  !.saves[i].snap = <<session.data>>]
    /\ OnlySession

\* a writeFile of session.json lands
SaveWritten(i) ==
    /\ session.saves[i].pc = "write"
    /\ session' = [session EXCEPT
                     !.file = session.saves[i].snap,
                     !.saves = Without(@, i),
                     !.phase = IF session.saves[i].owner = "initialize"
                               THEN "open" ELSE @]
    /\ OnlySession

\* backupSession after mkdir: the file name is made of the time of this moment
BackupMkdirDone(i) ==
    /\ session.backups[i].pc = "mkdir"
    /\ \E t \in {session.clock, session.clock + 1} :
          /\ t >= 1
          /\ t <= MaxStamps
          /\ session' = [session EXCEPT !.clock = t,
                                        !.backups[i].ts = t,
                                        !.backups[i].pc = "write"]
    /\ OnlySession

\* the writeFile of a backup lands; cleanupBackups awaits readdir
BackupWritten(i) ==
    /\ session.backups[i].pc = "write"
    /\ session' = [session EXCEPT !.dir = @ \cup {session.backups[i].ts},
                                  !.backups[i].pc = "readdir"]
    /\ OnlySession

\* cleanupBackups after readdir
CleanupListed(i) ==
    /\ session.backups[i].pc = "readdir"
    /\ LET toRemove == Excess(session.dir)
       IN  session' = IF toRemove = <<>> THEN BackupDone(session, i)
                      ELSE [session EXCEPT !.backups[i].pc = "unlink",
                                           !.backups[i].todo = toRemove]
    /\ OnlySession

\* one unlink of cleanupBackups: of a file already gone it throws, and the
\* catch ends the cleanup
CleanupUnlink(i) ==
    /\ session.backups[i].pc = "unlink"
    /\ LET backup == session.backups[i].todo[1]
           rest == Tail(session.backups[i].todo)
           removed == [session EXCEPT !.dir = @ \ {backup},
                                      !.backups[i].todo = rest]
       IN  session' = IF backup \notin session.dir THEN BackupDone(session, i)
                      ELSE IF rest = <<>> THEN BackupDone(removed, i)
                      ELSE removed
    /\ OnlySession

InitSession(enable, sizes) ==
    /\ messages = <<SystemMsg>>
    /\ tasks = <<IdleTask("main", "exited")>>
    /\ queries = <<>>
    /\ execs = <<>>
    /\ tools = [n \in ToolNames |-> 0]
    /\ regs = <<>>
    /\ toolLog = <<>>
    /\ turn = 0
    /\ escaped = FALSE
    /\ unhandled = FALSE
    /\ context = NoContext
    /\ \E file \in {<<>>} \cup {<<d>> : d \in PersistedData(sizes)} :
          session = [NoSession EXCEPT !.file = file,
                                      !.enableBackups = enable]

\* A session without backups, started on a session file of any size: the
\* commands of the user and the saves
NextSaves ==
    \/ Initialize
    \/ \E command \in Commands : AddToHistory(command)
    \/ AddToConversationHistory
    \/ ClearConversationHistory
    \/ SetSessionState
    \/ Close
    \/ \E i \in 1..Len(session.saves) : SaveMkdirDone(i)
    \/ \E i \in 1..Len(session.saves) : SaveWritten(i)

SpecSaves == InitSession(FALSE, 0..(MaxHistory + 1)) /\ [][NextSaves]_vars

\* A session with backups: the timer, restoreFromBackup and close
NextBackups ==
    \/ Initialize
    \/ TimerBackup
    \/ \E parsed \in PersistedData({MaxHistory}) : RestoreFromBackup(parsed)
    \/ Close
    \/ \E i \in 1..Len(session.saves) : SaveMkdirDone(i)
    \/ \E i \in 1..Len(session.saves) : SaveWritten(i)
    \/ \E i \in 1..Len(session.backups) : BackupMkdirDone(i)
    \/ \E i \in 1..Len(session.backups) : BackupWritten(i)
    \/ \E i \in 1..Len(session.backups) : CleanupListed(i)
    \/ \E i \in 1..Len(session.backups) : CleanupUnlink(i)

SpecBackups == InitSession(TRUE, {MaxHistory}) /\ [][NextBackups]_vars

\* One question, each response one region at most of any shape
NextTurnLive ==
    \/ Ask(1)
    \/ \E q \in 1..Len(queries) :
          \E c \in IF Scanned(q) THEN Chunks ELSE ProseChunks :
             queries[q].full = <<>> /\ StreamData(q, c)
    \/ Run(Behaviours)

\* Every query and every call of execute is answered in the end, and a
\* task whose promise has settled runs: the event loop leaves no event and
\* no continuation waiting for ever
SpecTurnLive == Init /\ [][NextTurnLive]_vars /\ WF_vars(Run(Behaviours))

\* The condensed view of a result: execute has resolved, for the call of a
\* question's response, to data of any serialized length, and
\* processToolCall goes on from its await
InitCondense ==
    \E len \in 0..MaxLen :
        LET site == [stage |-> "m1", pos |-> 1, sub |-> "b"]
            asked == <<SystemMsg, InputMsg(1)>>
        IN  /\ messages = asked
            /\ tasks = <<[ctx |-> "main", pc |-> "awaitExec", src |-> 1,
                          text |-> <<"A">>, site |-> site, wait |-> 1]>>
            /\ queries = <<[kind |-> "first", owner |-> Main, input |-> asked,
                            full |-> <<>>, acc |-> <<>>,
                            promise |-> "resolved", err |-> NoErr,
                            stream |-> "closed", dones |-> 0]>>
            /\ execs = <<[caller |-> Main, src |-> 1, site |-> site,
                          name |-> "listDir", args |-> {"path"}, beh |-> "ok",
                          invoked |-> TRUE, state |-> "settled",
                          out |-> Returned(len)]>>
            /\ tools = [n \in ToolNames |-> IF n = "listDir" THEN 1 ELSE 0]
            /\ regs = <<[name |-> "listDir", def |-> 1, warned |-> FALSE]>>
            /\ toolLog = <<ExecuteLog("listDir", "ok")>>
            /\ turn = 1
            /\ escaped = FALSE
            /\ unhandled = FALSE
            /\ context = NoContext
            /\ session = NoSession

NextCondense == AfterExecute(Main, "ok")

SpecCondense == InitCondense /\ [][NextCondense]_vars

----------------------------------------------------------------------------
(* Properties *)

Tasks == 1..Len(tasks)
Queries == 1..Len(queries)
Execs == 1..Len(execs)

\* the calls of execute made by the agent
AgentExecs == {e \in Execs : execs[e].caller # 0}

\* C1: within a turn execute is invoked at most once for each tool call of
\* a model response, whatever the gateway and the executors do: no two
\* calls of execute are for the same call of the same response.
C1_ExecutedAtMostOnce ==
    \A e1, e2 \in AgentExecs :
        (execs[e1].src = execs[e2].src /\ execs[e1].site.pos = execs[e2].site.pos)
            => e1 = e2

\* C2: at most one model query is in flight at any time.
C2_OneQueryInFlight ==
    Cardinality({q \in Queries : queries[q].promise = "pending"}) <= 1

\* C3: tool executions never overlap, and the calls of one response are
\* executed in the order in which they appear in its text.
C3_ExecutionsInSequence ==
    /\ Cardinality({e \in Execs : execs[e].state = "running"}) <= 1
    /\ \A e1, e2 \in AgentExecs :
          (e1 < e2 /\ execs[e1].src = execs[e2].src)
              => execs[e1].site.pos <= execs[e2].site.pos

\* the positions of a text that hold a well-formed call of a registered tool
WellFormedCalls(text) ==
    {i \in 1..Len(text) : text[i] \in CallChunks /\ Has(ChunkTool(text[i]))}

\* the main task ends its turn in this step
TurnEnds == tasks[Main].pc # "prompt" /\ tasks'[Main].pc = "prompt"

\* C4: when a response holds two or more well-formed tool calls, every one
\* of them has been executed by the time the turn returns to the prompt.
C4_EveryCallExecuted ==
    [][(/\ TurnEnds
        /\ tasks[Main].src # 0
        /\ Cardinality(WellFormedCalls(tasks[Main].text)) >= 2)
         => \A i \in WellFormedCalls(tasks[Main].text) :
               \E e \in 1..Len(execs') :
                  /\ execs'[e].src = tasks[Main].src
                  /\ execs'[e].site.pos = i]_vars

\* the calls of execute whose executor has answered
Answered == {e \in Execs : execs[e].state = "settled" /\ execs[e].invoked}

Carries(msg, word) == \E k \in 1..Len(msg) : msg[k] = word

NewExec == execs'[Len(execs')]
Executes == Len(execs') = Len(execs) + 1

NamesUnknownTool(text) ==
    LET site == NextSite(text, "m1", 1)
    IN  site # NoSite /\ ~Has(ChunkTool(text[site.pos]))

\* C7: when the call extracted from a response names a tool that is not
\* registered, a Tool Error message is appended and a further model query
\* is issued.
C7_UnknownToolIsReported ==
    [][(/\ tasks[Main].pc = "awaitFirst"
        /\ tasks'[Main] # tasks[Main]
        /\ queries[tasks[Main].wait].promise = "resolved"
        /\ NamesUnknownTool(queries[tasks[Main].wait].acc))
         => /\ Len(messages') = Len(messages) + 1
            /\ messages'[Len(messages')].tag = "Tool Error"
            /\ Len(queries') = Len(queries) + 1]_vars

\* task t goes on after execute has rejected / after the error-response query
FailureReported(t) ==
    /\ tasks[t].pc = "awaitExec"
    /\ tasks'[t] # tasks[t]
    /\ execs[tasks[t].wait].out.kind = "throw"

ErrorQueryOver(t) == tasks[t].pc = "awaitError" /\ tasks'[t] # tasks[t]

\* a Tool Error message with the failure's message is appended, then one
\* query is issued over the conversation that includes it
ToolErrorThenQuery(t) ==
    /\ messages' = Append(messages,
                          ErrorMsg(execs[tasks[t].wait].out.err.msg))
    /\ Len(queries') = Len(queries) + 1
    /\ queries'[Len(queries')].input = messages'
    /\ queries'[Len(queries')].promise = "pending"
    /\ tasks'[t].pc = "awaitError"
    /\ tasks'[t].wait = Len(queries')

\* the text of the query task t awaited is appended, no query is issued
TextAppended(t) ==
    /\ messages' = Append(messages, TextMsg(queries[tasks[t].wait].acc))
    /\ Len(queries') = Len(queries)

\* C8 as the specification words it: a registry failure is followed by the
\* Tool Error message, one further query over the conversation with it, and
\* that query's text appended as an assistant message.
C8_ErrorTextAlwaysAppended ==
    [][\A t \in Tasks :
          /\ FailureReported(t) => ToolErrorThenQuery(t)
          /\ ErrorQueryOver(t) => TextAppended(t)]_vars

\* C8: a registry failure is followed by the Tool Error message with the
\* failure's message, then by exactly one further query over the
\* conversation that includes it; when that query resolves, its text is
\* appended as an assistant message.
C8_ToolErrorThenQueryThenText ==
    [][\A t \in Tasks :
          /\ FailureReported(t) => ToolErrorThenQuery(t)
          /\ (ErrorQueryOver(t) /\ queries[tasks[t].wait].promise = "resolved")
                => TextAppended(t)]_vars

C8_Witness ==
    /\ tasks[Main].pc = "prompt"
    /\ \E k \in 1..Len(toolLog) : ~toolLog[k].success
    /\ \E i \in 1..(Len(messages) - 1) :
          /\ messages[i].tag = "Tool Error"
          /\ messages[i + 1].tag = "text"
          /\ \E q \in Queries :
                /\ queries[q].kind = "error"
                /\ queries[q].promise = "resolved"
                /\ queries[q].input = SubSeq(messages, 1, i)

\* C9: whatever the gateway and the executors do, no exception escapes
\* processInput, no rejection is left unhandled, and the loop goes on.
C9_NothingEscapes ==
    /\ ~escaped
    /\ ~unhandled
    /\ tasks[Main].pc # "exited"

C9_Witness ==
    /\ turn = 1
    /\ \A t \in Tasks : tasks[t].pc \in {"prompt", "done"}
    /\ \E k \in 1..Len(toolLog) : ~toolLog[k].success
    /\ \E q \in Queries :
          queries[q].kind = "error" /\ queries[q].promise = "rejected"

\* C10: every Tool Result message stands directly after the acknowledgement
\* of its tool and directly before the assistant's follow-up text, and every
\* follow-up query is issued over a conversation that ends with the Tool
\* Result.
C10_AckResultFollowUp ==
    /\ \A i \in 1..Len(messages) :
          messages[i].tag = "Tool Result"
              => /\ i > 1
                 /\ messages[i - 1] = AckMsg(messages[i].tool)
                 /\ i < Len(messages)
                       => /\ messages[i + 1].role = "assistant"
                          /\ messages[i + 1].tag = "text"
    /\ \A q \in Queries :
          queries[q].kind = "followup"
              => queries[q].input[Len(queries[q].input)].tag = "Tool Result"

\* C11: the serialized result a Tool Result message carries is at most 500
\* characters long: a serialization of more than 500 characters is carried
\* as its first 490 characters and the suffix '... (truncated)', a shorter
\* one unchanged.
C11_ResultAtMost500 ==
    [][\A t \in Tasks :
          (/\ tasks[t].pc = "awaitExec"
           /\ tasks'[t] # tasks[t]
           /\ execs[tasks[t].wait].out.kind = "return")
            => LET len == execs[tasks[t].wait].out.value
                   m == messages'[Len(messages')]
               IN  /\ m.tag = "Tool Result"
                   /\ ContentLength(m.body[1]) <= 500
                   /\ m.body[1] = IF len > 500
                               THEN [kept |-> 490, suffix |-> "... (truncated)"]
                               ELSE [kept |-> len, suffix |-> ""]]_vars

\* the main task goes on after a query of the turn has resolved to a text
\* in which processToolCallsInText finds no call
PlainTextArrives ==
    /\ tasks[Main].pc \in {"awaitFirst", "awaitDirected"}
    /\ tasks'[Main] # tasks[Main]
    /\ queries[tasks[Main].wait].promise = "resolved"
    /\ queries[tasks[Main].wait].acc # <<>>
    /\ NextSite(queries[tasks[Main].wait].acc, "m1", 1) = NoSite

\* C12: when the free-text query or the directed query of a turn completes
\* with a text that holds no tool call, one assistant message with that text
\* is appended and the turn ends.
C12_PlainTextAppended ==
    [][PlainTextArrives
         => /\ tasks'[Main].pc = "prompt"
            /\ messages'[Len(messages')]
                  = TextMsg(queries[tasks[Main].wait].acc)
            /\ tasks[Main].pc = "awaitFirst"
                  => messages' = Append(messages, messages'[Len(messages')])]_vars

\* C13: the directed query is issued at most once in a turn, whatever
\* fails during the turn.
C13_EscalatesAtMostOnce ==
    Cardinality({q \in Queries : queries[q].kind = "directed"}) <= 1

C13_Witness ==
    /\ turn = 1
    /\ \A t \in Tasks : tasks[t].pc \in {"prompt", "done"}
    /\ \E k \in 1..Len(toolLog) : ~toolLog[k].success
    /\ \E q1, q2, q3 \in Queries :
          /\ queries[q1].kind = "first" /\ queries[q1].promise = "rejected"
          /\ queries[q2].kind = "directed"
          /\ queries[q3].kind = "error" /\ queries[q3].promise = "rejected"

\* C14: when the free-text query and the directed query of a turn both
\* fail, an assistant message that reports it is appended before the loop
\* awaits the user's input again.
C14_ApologyAppended ==
    [][(/\ tasks[Main].pc = "awaitDirected"
        /\ tasks'[Main] # tasks[Main]
        /\ queries[tasks[Main].wait].promise = "rejected")
         => /\ Len(messages') = Len(messages) + 1
            /\ messages'[Len(messages')].role = "assistant"
            /\ tasks'[Main].pc = "prompt"]_vars

\* task t goes on after the query it awaited has failed
GatewayFailure(t) ==
    /\ tasks[t].pc \in {"awaitFirst", "awaitDirected", "awaitFollowUp",
                        "awaitError"}
    /\ tasks'[t] # tasks[t]
    /\ queries[tasks[t].wait].promise = "rejected"

\* C15: a gateway failure of any query of a turn leaves the conversation
\* intact: no message is removed or altered, and no tool-feedback message is
\* added because of the failure.
C15_GatewayFailureLeavesConversation ==
    [][\A t \in Tasks :
          GatewayFailure(t)
            => /\ Len(messages') >= Len(messages)
               /\ SubSeq(messages', 1, Len(messages)) = messages
               /\ \A i \in (Len(messages) + 1)..Len(messages') :
                     messages'[i].tag \notin {"Tool Result", "Tool Error"}]_vars

\* C16: the conversation is append-only: a step leaves every message of the
\* conversation as it is and adds new ones at the end, or it is /clear and
\* leaves exactly the leading system message.
C16_AppendOnly ==
    [][\/ /\ Len(messages') >= Len(messages)
          /\ SubSeq(messages', 1, Len(messages)) = messages
       \/ messages' = <<messages[1]>>]_vars

\* C17: a tool is executed for a response only after the gateway has
\* signalled the end of that response: the response's stream takes no
\* further content and its query has resolved.
C17_ExecutesCompleteResponses ==
    \A e \in AgentExecs :
        /\ queries[execs[e].src].stream # "open"
        /\ queries[execs[e].src].promise = "resolved"

C17_Witness ==
    \E e1, e2 \in AgentExecs :
        /\ queries[execs[e1].src].kind = "directed"
        /\ queries[execs[e1].src].stream = "done"
        /\ execs[e2].site.pos = 2

\* how far a task has come: the await of the first query, then the await
\* of the directed query, then the calls of processToolCall in the order
\* processToolCallsInText reaches them, each with its awaits in order
StageRank(stage) ==
    CASE stage = "m1" -> 1 [] stage = "m2" -> 2 [] stage = "m3" -> 3
      [] OTHER -> 0

PhaseRank(pc) ==
    CASE pc = "awaitExec" -> 1 [] pc = "awaitFollowUp" -> 2
      [] pc = "awaitError" -> 3 [] OTHER -> 0

Rank(task) ==
    CASE task.pc = "awaitFirst" -> 0
      [] task.pc = "awaitDirected" -> 1
      [] task.pc \in {"prompt", "done", "exited"} -> 8 * 4 * (MaxChunks + 2)
      [] OTHER ->
            ((StageRank(task.site.stage) * (MaxChunks + 2) + task.site.pos) * 2
                + (IF task.site.sub = "b" THEN 1 ELSE 0)) * 4
             + PhaseRank(task.pc)

Running(t) == tasks[t].pc \notin {"prompt", "done", "exited"}

\* the queries or the calls of execute of the model are used up
BudgetSpent ==
    \/ Len(queries) >= MaxQueries + turn
    \/ Len(execs) >= MaxExecs

RegistrationsOf(n) == {i \in 1..Len(regs) : regs[i].name = n}

Latest(S) == CHOOSE i \in S : \A j \in S : j <= i

\* C19: after any calls of register the registry holds one tool per
\* registered name, has(n) is true exactly for the registered names, get(n)
\* is the tool registered last under n, getAll has one element per name, and
\* a call warned exactly when the name was registered before it.
C19_LastRegistrationWins ==
    /\ \A n \in ToolNames :
          /\ Has(n) <=> RegistrationsOf(n) # {}
          /\ RegistrationsOf(n) # {}
                => Get(n) = regs[Latest(RegistrationsOf(n))].def
    /\ Cardinality(GetAll) = Cardinality({regs[i].name : i \in 1..Len(regs)})
    /\ \A a, b \in GetAll : a.name = b.name => a = b
    /\ \A i \in 1..Len(regs) :
          regs[i].warned <=> \E j \in 1..(i - 1) : regs[j].name = regs[i].name

C19_Witness ==
    \E i, j \in 1..Len(regs) :
        /\ i < j
        /\ regs[i].name = regs[j].name
        /\ regs[i].def # regs[j].def
        /\ regs[j].warned
        /\ Get(regs[j].name) = regs[j].def

\* the calls of execute that have come to their end
SettledCalls == {e \in 1..Len(execs) : execs[e].state = "settled"}

ExecutionRecords == {k \in 1..Len(toolLog) : toolLog[k].kind = "toolExecution"}

\* C20: every call of execute that has ended, whatever its outcome, has
\* been reported to the logger as one tool-execution record: there are as
\* many such records as ended calls, for each tool name.
C20_EveryCallRecorded ==
    \A n \in ToolNames :
        Cardinality({k \in ExecutionRecords : toolLog[k].tool = n})
            = Cardinality({e \in SettledCalls : execs[e].name = n})

QuietAfterError(q) ==
    queries[q].promise = "rejected"
        => /\ queries'[q].promise = "rejected"
           /\ queries'[q].err = queries[q].err
           /\ queries'[q].acc = queries[q].acc
           /\ queries'[q].dones = queries[q].dones

\* the stream of query q has failed: no success and no callback follows
FailureIsTerminal(q) ==
    queries[q].stream = "failed"
        => /\ queries'[q].promise # "resolved"
           /\ queries'[q].acc = queries[q].acc
           /\ queries'[q].dones = queries[q].dones

\* C22: when the stream of a query fails the gateway surfaces one terminal
\* error for the query, and the callback is not invoked again, neither with
\* a content nor with isDone = true.
C22_OneTerminalError ==
    [][\A q \in Queries : QuietAfterError(q) /\ FailureIsTerminal(q)]_vars

\* C23: a query that succeeds has had its callback invoked with
\* isDone = true once: the promise is resolved with the one completion
\* signal, and no second one follows.
C23_DoneExactlyOnce ==
    \A q \in Queries :
        /\ queries[q].dones <= 1
        /\ queries[q].promise = "resolved" => queries[q].dones = 1

\* the first query of the question has resolved with the one region c and
\* this step runs the extractor over it
Extracts(c) ==
    /\ tasks[Main].pc = "awaitFirst"
    /\ tasks'[Main].pc # "awaitFirst"
    /\ queries[tasks[Main].wait].promise = "resolved"
    /\ queries[tasks[Main].wait].acc = <<c>>

\* well-formed calls of a registered tool in Syntax A, B and C
WellFormedSyntax == {"A", "A2", "B", "C"}

\* C24: a response holding one well-formed tool call in Syntax A, B or C
\* yields one call of that tool with every argument of the call.
C24_ExtractsEveryCall ==
    [][\A c \in WellFormedSyntax :
          Extracts(c) => /\ Executes
                         /\ NewExec.name = ChunkTool(c)
                         /\ NewExec.args = ChunkParams(c)]_vars

\* C25: a call whose params fragment is {path: ./README.md} is recovered
\* by the bare-argument fallback and executed with the argument path.
C25_BareArgumentRecovers ==
    [][Extracts("M") => /\ Executes
                        /\ NewExec.name = ChunkTool("M")
                        /\ NewExec.args = {"path"}]_vars

\* the text of the first query is appended as the assistant's answer and
\* the turn is over
AnsweredPlainly ==
    /\ messages' = Append(messages, TextMsg(queries[tasks[Main].wait].acc))
    /\ tasks'[Main].pc = "prompt"
    /\ Len(tasks') = Len(tasks)
    /\ Len(queries') = Len(queries)

\* a call of execute by the agent is for a region that holds a "name" token
ExecutesForACall ==
    (Executes /\ NewExec.caller # 0)
        => HasNameToken(tasks'[NewExec.caller].text[NewExec.site.pos])

C29_DirectedQueryOptions ==
    \A q \in Queries :
        queries[q].kind = "directed"
            => /\ queries[q].options.format = "json"
               /\ queries[q].options.toolChoice = "forced"
               /\ \A p \in Queries :
                     queries[p].kind = "first"
                        => queries[q].options.temperature
                              < queries[p].options.temperature
               /\ Len(queries[q].input) = 2
               /\ queries[q].input[1].role = "system"
               /\ queries[q].input[2].role = "user"

\* how often the project-instructions block stands in a message
Blocks(msg) == Cardinality({k \in 1..Len(msg.body) : msg.body[k] = ProjectContext})

\* C31: enhanceMessages leaves the messages it is given as they are: the
\* stored system message never changes, and the system message of a list
\* it returns holds the project-instructions block once.
C31_EnhanceLeavesInput ==
    /\ [][messages'[1] = messages[1]]_vars
    /\ [](Blocks(messages[1]) <= 1)


\* C32: the command history never holds more than maxHistorySize entries,
\* whatever the size of the session that initialize loaded and whatever is
\* added to it afterwards.
C32_HistoryBounded ==
    Len(session.data.history) <= MaxHistory

\* C36: when no saveSession is pending, session.json holds the session data
\* of the manager: no save that started earlier has overwritten the file of
\* a later one.
C36_FileIsLatest ==
    (session.phase # "new" /\ session.saves = <<>>)
        => session.file = <<session.data>>

\* the backups created so far, by their timestamps
Created == 1..session.clock

\* C33: when no backupSession is in progress, the backups directory holds at
\* most maxBackups files, and they are the ones created last.
C33_BackupsBounded ==
    session.backups = <<>> =>
        /\ Cardinality(session.dir) <= MaxBackups
        /\ session.dir = {t \in Created : t + MaxBackups > session.clock}


\* task t goes on after execute has resolved
ExecuteResolved(t) ==
    /\ tasks[t].pc = "awaitExec"
    /\ tasks'[t] # tasks[t]
    /\ execs[tasks[t].wait].out.kind = "return"

\* task t goes on after the follow-up query of a resolved execute
FollowUpOver(t) ==
    /\ tasks[t].pc = "awaitFollowUp"
    /\ tasks'[t] # tasks[t]

\* the tags of the messages a step appends
AppendedTags ==
    {messages'[i].tag : i \in (Len(messages) + 1)..Len(messages')}

\* C34: when execute has resolved the turn records a Tool Result message,
\* and no Tool Error message is appended for that call, neither at once nor
\* when the follow-up query is over, however it ended.
C34_ToolErrorOnlyOnToolFailure ==
    [][\A t \in Tasks :
          /\ ExecuteResolved(t)
                => /\ "Tool Result" \in AppendedTags
                   /\ "Tool Error" \notin AppendedTags
          /\ FollowUpOver(t) => "Tool Error" \notin AppendedTags]_vars

\* C35: the narrowed user prompt of a directed query quotes the user's input
\* of the turn in which the query is issued.
C35_DirectedQuotesInput ==
    [][\A q \in (Len(queries) + 1)..Len(queries') :
          queries'[q].kind = "directed"
             => queries'[q].input[2] = DirectedMsg(InputMsg(turn))]_vars


\* an event with an error field arrives on the stream of query q
ErrorEvent(q) ==
    /\ queries[q].stream = "open"
    /\ queries'[q].stream = "failed"

\* C37: an event of the stream that carries an error field makes the query
\* fail with an AIQueryError, at the event, and the query does not resolve
\* afterwards with the text accumulated before it.
C37_ErrorEventFailsQuery ==
    [][\A q \in Queries :
          /\ (ErrorEvent(q) /\ queries[q].promise = "pending")
                => /\ queries'[q].promise = "rejected"
                   /\ queries'[q].err.cls = "AIQueryError"
          /\ queries[q].stream = "failed"
                => queries'[q].promise # "resolved"]_vars

====
